---- MODULE Spec2Model ----
(***************************************************************************)
(* A model of the command-line driver of Gikou (src/src/cli.cc): the       *)
(* dispatcher Cli::ExecuteCommand, the two benchmarks, the enumeration of  *)
(* all possible quiet moves and the computation of player ratings.  The    *)
(* board primitives the driver calls (squares, pieces, maximal attacks,    *)
(* the move encoding, the move generator and the mate provers) live in     *)
(* other files of the repository and are modelled from their description.  *)
(***************************************************************************)
EXTENDS Integers, Sequences, FiniteSets, TLC

VARIABLES
  \* ---- Cli::ExecuteCommand ----
  argc,       \* the number of words of the command line, the program's name included
  argv,       \* the words after the program's name: argv[1] the command, argv[2] its argument
  pc,         \* where the program is
  called,     \* the handlers entered so far, each with its arguments
  out,        \* the dispatcher's own messages
  \* ---- ComputeAllPossibleQuietMoves ----
  qi,         \* index into Piece::all_pieces() of the running loop (passes 1 and 3)
  qc,         \* index of the colour of pass 2 (1 = kBlack, 2 = kWhite)
  moves,      \* std::vector<Move> moves
  values,     \* std::vector<uint32_t> values
  output,     \* the values printed, in order
  \* ---- BenchmarkMoveGeneration, BenchmarkMateSearch ----
  num_calls,  \* the parameter num_calls
  ply,        \* the parameter ply of BenchmarkMateSearch
  pos_id,     \* how many positions the loop over the positions has taken
  pos,        \* Position pos of the running iteration
  loop_i,     \* the counter of the loop of calls (i, j)
  end,        \* ExtMove* end, as an offset from stack.begin()
  stack,      \* Array<ExtMove, Move::kMaxLegalMoves> stack
  mate_move,  \* Move mate_move
  printed,    \* what the running iteration printed as its result
  \* ---- ComputePlayerRatings ----
  db,            \* the games GameDatabase::ReadOneGame yields, in file order
  games,         \* std::vector<Game> games
  ratings,       \* std::unordered_map<std::string, int64_t> ratings
  sum_ratings,   \* std::unordered_map<std::string, int64_t> sum_ratings
  num_played,    \* std::unordered_map<std::string, int64_t> num_played
  game_i,        \* the index in games of the loop of step 4
  winner_rating, \* int winner_rating
  loser_rating,  \* int loser_rating
  delta,         \* int delta
  results,       \* the lines printed: (player, rating), in order
  \* ---- ProveMateInThree ----
  m3_moves,      \* the number of first moves of the position
  m3_k,          \* the candidate first move being tried
  m3_check,      \* whether that move gives check
  m3_replies,    \* the positions after each legal reply to that move
  m3_r,          \* the reply being tried
  m3_result      \* what the prover returns

cliVars == <<argc, argv, called, out>>
qVars == <<qi, qc, moves, values, output>>
bVars == <<pos_id, pos, loop_i, end, stack, mate_move, printed>>
rVars == <<db, games, ratings, sum_ratings, num_played, game_i,
           winner_rating, loser_rating, delta, results>>
mVars == <<m3_moves, m3_k, m3_check, m3_replies, m3_r, m3_result>>
vars == <<pc, cliVars, qVars, num_calls, ply, bVars, rVars, mVars>>

(***************************************************************************)
(* Bounds of the model                                                     *)
(***************************************************************************)
\* The longest argv[2] tried.
MaxArgLen == 2
\* The largest repeat count a benchmark is run with.
MaxCalls == 2
\* The capacity of the move buffer, Move::kMaxLegalMoves, scaled down.
kMaxLegalMoves == 3
\* The most candidate moves a problem position has.
MaxCand == 2
\* The length of the run of games one player wins against another.
MaxStreak == 42
\* The number of further games of the database.
MaxTail == 1
\* The most legal replies to a first move.
MaxReply == 2
\* The most moves of the position after a reply.
MaxMate == 1

(***************************************************************************)
(* Squares, colours, pieces                                                *)
(***************************************************************************)
kBlack == "Black"
kWhite == "White"
ColorSeq == <<kBlack, kWhite>>

kKing    == "King"
kRook    == "Rook"
kBishop  == "Bishop"
kGold    == "Gold"
kSilver  == "Silver"
kKnight  == "Knight"
kLance   == "Lance"
kPawn    == "Pawn"
kDragon  == "Dragon"
kHorse   == "Horse"
kPSilver == "PSilver"
kPKnight == "PKnight"
kPLance  == "PLance"
kPPawn   == "PPawn"

PieceTypeSeq ==
  <<kKing, kRook, kBishop, kGold, kSilver, kKnight, kLance, kPawn,
    kDragon, kHorse, kPSilver, kPKnight, kPLance, kPPawn>>

\* Piece::all_pieces(): every (colour, type) pair once, black pieces first.
all_pieces ==
  [i \in 1..(2 * Len(PieceTypeSeq)) |->
     [color |-> ColorSeq[((i - 1) \div Len(PieceTypeSeq)) + 1],
      type  |-> PieceTypeSeq[((i - 1) % Len(PieceTypeSeq)) + 1]]]

\* Piece::is_droppable(): the seven unpromoted types other than the king.
is_droppable(piece) ==
  piece.type \in {kRook, kBishop, kGold, kSilver, kKnight, kLance, kPawn}

\* The 81 squares, file-major: square = 9 * (file - 1) + (rank - 1).
Squares == 0..80
all_squares == [i \in 1..81 |-> i - 1]
FileOf(sq) == (sq \div 9) + 1
RankOf(sq) == (sq % 9) + 1

\* The rank of a square as seen from a colour (rank 1 is the farthest rank).
RelativeRank(c, sq) == IF c = kBlack THEN RankOf(sq) ELSE 10 - RankOf(sq)

\* rank_bb<lo, hi>(color): the squares on ranks lo..hi seen from color.
rank_bb(lo, hi, c) == {sq \in Squares : lo <= RelativeRank(c, sq) /\ RelativeRank(c, sq) <= hi}

\* Bitboard::board_bb()
board_bb == Squares

\* Square::is_promotion_zone_of(c): the three farthest ranks seen from c.
is_promotion_zone_of(sq, c) == RelativeRank(c, sq) <= 3

Abs(x) == IF x < 0 THEN 0 - x ELSE x

\* max_attacks_bb(piece, from): the squares the piece reaches from `from` on
\* an empty board.  df, dr are the file and rank steps seen from the piece's
\* colour (forward is dr < 0).
StepPattern(type, df, dr) ==
  LET king   == (df # 0 \/ dr # 0) /\ Abs(df) <= 1 /\ Abs(dr) <= 1
      gold   == \/ (Abs(df) <= 1 /\ dr = -1)
                \/ (Abs(df) = 1 /\ dr = 0)
                \/ (df = 0 /\ dr = 1)
      bishop == df # 0 /\ Abs(df) = Abs(dr)
      rook   == (df = 0) # (dr = 0)
  IN CASE type = kPawn   -> df = 0 /\ dr = -1
       [] type = kLance  -> df = 0 /\ dr < 0
       [] type = kKnight -> Abs(df) = 1 /\ dr = -2
       [] type = kSilver -> (Abs(df) <= 1 /\ dr = -1) \/ (Abs(df) = 1 /\ dr = 1)
       [] type = kGold   -> gold
       [] type = kBishop -> bishop
       [] type = kRook   -> rook
       [] type = kKing   -> king
       [] type = kHorse  -> bishop \/ king
       [] type = kDragon -> rook \/ king
       [] OTHER          -> gold

Reaches(piece, from, to) ==
  LET dir == IF piece.color = kBlack THEN 1 ELSE -1
  IN StepPattern(piece.type, FileOf(to) - FileOf(from), dir * (RankOf(to) - RankOf(from)))

max_attacks_bb(piece, from) == {to \in Squares : Reaches(piece, from, to)}

\* Bitboard::ForEach visits the squares of a bitboard in ascending order.
ForEach(bb) == SelectSeq(all_squares, LAMBDA sq : sq \in bb)

(***************************************************************************)
(* Moves.  A Move is one 32-bit word: destination, origin, promotion flag, *)
(* drop flag and piece packed into disjoint bit fields.                    *)
(***************************************************************************)
IndexOf(seq, x) == CHOOSE i \in 1..Len(seq) : seq[i] = x

\* The number a piece is packed as: its type, and 16 more for a white piece.
PieceId(piece) ==
  IndexOf(PieceTypeSeq, piece.type) + 16 * (IndexOf(ColorSeq, piece.color) - 1)

\* Move(piece, from, to) and Move(color, type, from, to, promotion)
BoardMove(piece, from, to, promotion) ==
  to + 128 * from + 16384 * (IF promotion THEN 1 ELSE 0) + 65536 * PieceId(piece)

\* Move(piece, to): a drop
DropMove(piece, to) == to + 32768 + 65536 * PieceId(piece)

\* Move::to(), from(), is_promotion(), is_drop(), piece()
MoveTo(m) == m % 128
MoveFrom(m) == (m \div 128) % 128
IsPromotion(m) == (m \div 16384) % 2 = 1
IsDrop(m) == (m \div 32768) % 2 = 1
MovePiece(m) ==
  LET id == m \div 65536
  IN [color |-> ColorSeq[(id \div 16) + 1], type |-> PieceTypeSeq[id % 16]]

\* Move::ToUint32(): the word itself.
ToUint32(m) == m

RECURSIVE SortRange(_, _, _)
\* std::sort on integers in lo..hi: the ascending arrangement of the same
\* elements, every duplicate kept.
SortRange(seq, lo, hi) ==
  IF Len(seq) <= 1 \/ lo >= hi THEN seq
  ELSE LET mid == (lo + hi) \div 2
       IN SortRange(SelectSeq(seq, LAMBDA v : v <= mid), lo, mid)
          \o SortRange(SelectSeq(seq, LAMBDA v : v > mid), mid + 1, hi)

\* The encodings fit in 22 bits.
StdSort(seq) == SortRange(seq, 0, 4194303)

(***************************************************************************)
(* ComputeAllPossibleQuietMoves                                            *)
(***************************************************************************)
Range(seq) == {seq[k] : k \in 1..Len(seq)}

RECURSIVE Flatten(_, _)
\* The concatenation of seqs[1..n].
Flatten(seqs, n) == IF n = 0 THEN <<>> ELSE Flatten(seqs, n - 1) \o seqs[n]

\* Mutant: the origin squares left unrestricted.
FromBB_WholeBoard(piece) == board_bb

\* Pass 1, origin squares: bishops and rooks only start outside the zone.
FromBB(piece) ==
  CASE piece.type = kBishop -> board_bb \cap rank_bb(4, 9, piece.color)
    [] piece.type = kRook   -> board_bb \cap rank_bb(4, 9, piece.color)
    [] OTHER                -> board_bb

\* Mutant: the pawn's destinations cut at rank 3, like the lance's.
QuietTarget_PawnRank3(piece) ==
  CASE piece.type = kPawn   -> board_bb \cap rank_bb(3, 9, piece.color)
    [] piece.type = kLance  -> board_bb \cap rank_bb(3, 9, piece.color)
    [] piece.type = kKnight -> board_bb \cap rank_bb(3, 9, piece.color)
    [] piece.type = kBishop -> board_bb \cap rank_bb(4, 9, piece.color)
    [] piece.type = kRook   -> board_bb \cap rank_bb(4, 9, piece.color)
    [] OTHER                -> board_bb

\* Pass 1, destination squares.
QuietTarget(piece) ==
  CASE piece.type = kPawn   -> board_bb \cap rank_bb(4, 9, piece.color)
    [] piece.type = kLance  -> board_bb \cap rank_bb(3, 9, piece.color)
    [] piece.type = kKnight -> board_bb \cap rank_bb(3, 9, piece.color)
    [] piece.type = kBishop -> board_bb \cap rank_bb(4, 9, piece.color)
    [] piece.type = kRook   -> board_bb \cap rank_bb(4, 9, piece.color)
    [] OTHER                -> board_bb

\* Pass 1, one iteration of the loop over the pieces.
QuietMovesOf(piece) ==
  LET froms == ForEach(FromBB(piece))
      target == QuietTarget(piece)
      perFrom == [k \in 1..Len(froms) |->
                    LET tos == ForEach(max_attacks_bb(piece, froms[k]) \cap target)
                    IN [j \in 1..Len(tos) |-> BoardMove(piece, froms[k], tos[j], FALSE)]]
  IN Flatten(perFrom, Len(froms))

\* Mutant: only the destination is tested for the promotion zone.
SilverPromotionsFrom_ToOnly(c, from) ==
  LET piece == [color |-> c, type |-> kSilver]
      tos == SelectSeq(ForEach(max_attacks_bb(piece, from)),
                       LAMBDA to : is_promotion_zone_of(to, c))
  IN [j \in 1..Len(tos) |-> BoardMove(piece, from, tos[j], TRUE)]

\* Mutant: the promotion flag of the pushed move left unset.
SilverPromotionsFrom_NoFlag(c, from) ==
  LET piece == [color |-> c, type |-> kSilver]
      tos == SelectSeq(ForEach(max_attacks_bb(piece, from)),
                       LAMBDA to : is_promotion_zone_of(to, c) \/ is_promotion_zone_of(from, c))
  IN [j \in 1..Len(tos) |-> BoardMove(piece, from, tos[j], FALSE)]

\* Pass 2, the body of the loop over the origin squares.
SilverPromotionsFrom(c, from) ==
  LET piece == [color |-> c, type |-> kSilver]
      tos == SelectSeq(ForEach(max_attacks_bb(piece, from)),
                       LAMBDA to : is_promotion_zone_of(to, c) \/ is_promotion_zone_of(from, c))
  IN [j \in 1..Len(tos) |-> BoardMove(piece, from, tos[j], TRUE)]

\* Pass 2, one iteration of the loop over the colours.
SilverPromotionsOf(c) ==
  Flatten([k \in 1..Len(all_squares) |-> SilverPromotionsFrom(c, all_squares[k])],
          Len(all_squares))

\* Mutant: the knight's drops cut at rank 2, like the pawn's.
DropTarget_KnightRank2(piece) ==
  CASE piece.type = kPawn   -> board_bb \cap rank_bb(2, 9, piece.color)
    [] piece.type = kLance  -> board_bb \cap rank_bb(2, 9, piece.color)
    [] piece.type = kKnight -> board_bb \cap rank_bb(2, 9, piece.color)
    [] OTHER                -> board_bb

\* Pass 3, destination squares of a drop.
DropTarget(piece) ==
  CASE piece.type = kPawn   -> board_bb \cap rank_bb(2, 9, piece.color)
    [] piece.type = kLance  -> board_bb \cap rank_bb(2, 9, piece.color)
    [] piece.type = kKnight -> board_bb \cap rank_bb(3, 9, piece.color)
    [] OTHER                -> board_bb

\* Pass 3, one iteration of the loop over the pieces.
DropMovesOf(piece) ==
  IF ~is_droppable(piece) THEN <<>>
  ELSE LET tos == ForEach(DropTarget(piece))
       IN [j \in 1..Len(tos) |-> DropMove(piece, tos[j])]

(***************************************************************************)
(* Cli::ExecuteCommand                                                     *)
(***************************************************************************)
\* The characters argv[2] is made of: a sign, digits, and a non-digit.
ArgChars == {"-", "1", "2", "x"}
ArgStrings == UNION {[1..n -> ArgChars] : n \in 0..MaxArgLen}

DigitOf(ch) ==
  CASE ch = "0" -> 0 [] ch = "1" -> 1 [] ch = "2" -> 2 [] ch = "3" -> 3 [] ch = "4" -> 4
    [] ch = "5" -> 5 [] ch = "6" -> 6 [] ch = "7" -> 7 [] ch = "8" -> 8 [] ch = "9" -> 9
    [] OTHER -> -1

RECURSIVE ParseDigits(_, _, _)
\* The value of the longest run of digits of str that starts at k.
ParseDigits(str, k, acc) ==
  IF k > Len(str) \/ DigitOf(str[k]) < 0 THEN acc
  ELSE ParseDigits(str, k + 1, 10 * acc + DigitOf(str[k]))

RECURSIVE SkipSpaces(_, _)
SkipSpaces(str, k) ==
  IF k <= Len(str) /\ str[k] = " " THEN SkipSpaces(str, k + 1) ELSE k

\* std::atoi: leading blanks, an optional sign, then digits up to the first
\* character that is none; 0 when there is no digit.
atoi(str) ==
  LET k == SkipSpaces(str, 1)
  IN IF k <= Len(str) /\ str[k] = "-" THEN 0 - ParseDigits(str, k + 1, 0)
     ELSE IF k <= Len(str) /\ str[k] = "+" THEN ParseDigits(str, k + 1, 0)
     ELSE ParseDigits(str, k, 0)

\* The command strings ExecuteCommand knows, in the order it tests them.
KnownCommands ==
  <<"--bench", "--bench-movegen", "--bench-mate1", "--bench-mate3", "--cluster",
    "--compute-all-quiets", "--consultation", "--create-book", "--db-stats",
    "--generate-games", "--generate-positions", "--generate-pvs", "--learn",
    "--learn-with-rootstrap", "--learn-with-regression", "--learn-progress",
    "--learn-probability", "--compute-ratings">>

kBooks == <<"b", "o", "o", "k", "s">>
kNullptr == <<"nullptr">>

\* Mutant: no call when the count is left out.
NumTries_DefaultZero(n, words) == IF n >= 3 THEN atoi(words[2]) ELSE 0

\* int num_tries = argc >= 3 ? std::atoi(argv[2]) : 1;
NumTries(n, words) == IF n >= 3 THEN atoi(words[2]) ELSE 1

\* The ply BenchmarkMateSearch is called with by each of its two commands.
PlyOfCommand(command) == IF command = "--bench-mate1" THEN 1 ELSE 3

NoCall == [fn |-> "none", args |-> <<>>]

\* The if/else-if chain of ExecuteCommand: the handler a command line runs.
Dispatch(n, words) ==
  LET command == words[1]
  IN CASE command = "--bench" -> [fn |-> "BenchmarkSearch", args |-> <<>>]
       [] command = "--bench-movegen" ->
            [fn |-> "BenchmarkMoveGeneration", args |-> <<NumTries(n, words)>>]
       [] command = "--bench-mate1" ->
            [fn |-> "BenchmarkMateSearch", args |-> <<NumTries(n, words), PlyOfCommand(command)>>]
       [] command = "--bench-mate3" ->
            [fn |-> "BenchmarkMateSearch", args |-> <<NumTries(n, words), PlyOfCommand(command)>>]
       [] command = "--cluster" -> [fn |-> "Cluster::Start", args |-> <<>>]
       [] command = "--compute-all-quiets" ->
            [fn |-> "ComputeAllPossibleQuietMoves", args |-> <<>>]
       [] command = "--consultation" -> [fn |-> "Consultation::Start", args |-> <<>>]
       [] command = "--create-book" ->
            [fn |-> "CreateBook", args |-> <<IF n >= 3 THEN words[2] ELSE kBooks>>]
       [] command = "--db-stats" ->
            [fn |-> "ComputeStatsOfGameDatabase",
             args |-> <<IF n >= 3 THEN words[2] ELSE kNullptr>>]
       [] command = "--generate-games" ->
            [fn |-> "TeacherData::GenerateTeacherGames", args |-> <<>>]
       [] command = "--generate-positions" ->
            [fn |-> "TeacherData::GenerateTeacherPositions", args |-> <<>>]
       [] command = "--generate-pvs" ->
            [fn |-> "TeacherData::GenerateTeacherPvs", args |-> <<>>]
       [] command = "--learn" ->
            [fn |-> "Learning::LearnEvaluationParameters", args |-> <<FALSE, FALSE>>]
       [] command = "--learn-with-rootstrap" ->
            [fn |-> "Learning::LearnEvaluationParameters", args |-> <<TRUE, FALSE>>]
       [] command = "--learn-with-regression" ->
            [fn |-> "Learning::LearnEvaluationParameters", args |-> <<TRUE, TRUE>>]
       [] command = "--learn-progress" -> [fn |-> "Progress::LearnParameters", args |-> <<>>]
       [] command = "--learn-probability" -> [fn |-> "MoveProbability::Learn", args |-> <<>>]
       [] command = "--compute-ratings" -> [fn |-> "ComputePlayerRatings", args |-> <<>>]
       [] OTHER -> NoCall

\* Where the program is once a handler is entered.  The handlers of other
\* files run to their end out of sight.
EntryOf(fn) ==
  CASE fn = "BenchmarkMoveGeneration"      -> "movegen_position"
    [] fn = "BenchmarkMateSearch"          -> "mate_assert"
    [] fn = "ComputeAllPossibleQuietMoves" -> "quiet_pass1"
    [] fn = "ComputePlayerRatings"         -> "ratings_read"
    [] OTHER                               -> "returned"

CommandLines(commands) ==
  {<<1, <<>>>>}
    \cup {<<2, <<c>>>> : c \in commands}
    \cup {<<3, <<c, a>>>> : c \in commands, a \in {x \in ArgStrings : atoi(x) <= MaxCalls}}

CliInit(commands) ==
  /\ \E cl \in CommandLines(commands) : argc = cl[1] /\ argv = cl[2]
  /\ pc = "start"
  /\ called = <<>>
  /\ out = <<>>

kMoveNone == 0

BInit ==
  /\ num_calls = 0
  /\ ply = 0
  /\ pos_id = 0
  /\ pos = <<>>
  /\ loop_i = 0
  /\ end = 0
  /\ stack = <<>>
  /\ mate_move = kMoveNone
  /\ printed = <<>>

\* An unordered_map with no key.
EmptyMap == [p \in {} |-> 0]

RInit ==
  /\ games = <<>>
  /\ ratings = EmptyMap
  /\ sum_ratings = EmptyMap
  /\ num_played = EmptyMap
  /\ game_i = 1
  /\ winner_rating = 0
  /\ loser_rating = 0
  /\ delta = 0
  /\ results = <<>>

MInit ==
  /\ m3_k = 1
  /\ m3_check = FALSE
  /\ m3_replies = <<>>
  /\ m3_r = 1
  /\ m3_result = [found |-> FALSE, mate_move |-> kMoveNone]

QInit ==
  /\ qi = 1
  /\ qc = 1
  /\ moves = <<>>
  /\ values = <<>>
  /\ output = <<>>

ExecuteCommand ==
  /\ pc = "start"
  /\ IF argc < 2
       THEN /\ out' = <<"CLI: No command.">>
            /\ called' = called
            /\ pc' = "returned"
       ELSE LET call == Dispatch(argc, argv)
            IN IF call = NoCall
                 THEN /\ out' = <<"CLI: No such command.", argv[1]>>
                      /\ called' = called
                      /\ pc' = "returned"
                 ELSE /\ out' = out
                      /\ called' = Append(called, call)
                      /\ pc' = EntryOf(call.fn)
  /\ num_calls' = IF argc >= 2 /\ Dispatch(argc, argv).fn \in {"BenchmarkMoveGeneration", "BenchmarkMateSearch"}
                    THEN Dispatch(argc, argv).args[1] ELSE num_calls
  /\ ply' = IF argc >= 2 /\ Dispatch(argc, argv).fn = "BenchmarkMateSearch"
              THEN Dispatch(argc, argv).args[2] ELSE ply
  /\ UNCHANGED <<argc, argv, qVars, bVars, rVars, mVars>>

(***************************************************************************)
(* ComputeAllPossibleQuietMoves, step by step                              *)
(***************************************************************************)
QuietPass1 ==
  /\ pc = "quiet_pass1"
  /\ moves' = moves \o QuietMovesOf(all_pieces[qi])
  /\ IF qi < Len(all_pieces)
       THEN qi' = qi + 1 /\ pc' = pc
       ELSE qi' = 1 /\ pc' = "quiet_pass2"
  /\ UNCHANGED <<mVars, rVars, cliVars, num_calls, ply, bVars, qc, values, output>>

QuietPass2 ==
  /\ pc = "quiet_pass2"
  /\ moves' = moves \o SilverPromotionsOf(ColorSeq[qc])
  /\ IF qc < Len(ColorSeq)
       THEN qc' = qc + 1 /\ pc' = pc
       ELSE qc' = qc /\ pc' = "quiet_pass3"
  /\ UNCHANGED <<mVars, rVars, cliVars, num_calls, ply, bVars, qi, values, output>>

QuietPass3 ==
  /\ pc = "quiet_pass3"
  /\ moves' = moves \o DropMovesOf(all_pieces[qi])
  /\ IF qi < Len(all_pieces)
       THEN qi' = qi + 1 /\ pc' = pc
       ELSE qi' = qi /\ pc' = "quiet_sort"
  /\ UNCHANGED <<mVars, rVars, cliVars, num_calls, ply, bVars, qc, values, output>>

QuietSort ==
  /\ pc = "quiet_sort"
  /\ values' = StdSort([k \in 1..Len(moves) |-> ToUint32(moves[k])])
  /\ pc' = "quiet_print"
  /\ UNCHANGED <<mVars, rVars, cliVars, num_calls, ply, bVars, qi, qc, moves, output>>

QuietPrint ==
  /\ pc = "quiet_print"
  /\ output' = values
  /\ pc' = "returned"
  /\ UNCHANGED <<mVars, rVars, cliVars, num_calls, ply, bVars, qi, qc, moves, values>>

\* The command lines that run ComputeAllPossibleQuietMoves; the function
\* reads none of its words.
InitQuiet ==
  /\ CliInit({"--compute-all-quiets"})
  /\ argc > 1
  /\ argc = 3 => argv[2] = <<"x">>
  /\ QInit
  /\ BInit
  /\ RInit
  /\ MInit
  /\ db = <<>>
  /\ m3_moves = 0

NextQuiet ==
  ExecuteCommand \/ QuietPass1 \/ QuietPass2 \/ QuietPass3 \/ QuietSort \/ QuietPrint

SpecQuiet == InitQuiet /\ [][NextQuiet]_vars

(***************************************************************************)
(* BenchmarkMoveGeneration                                                 *)
(***************************************************************************)
\* The moves of the model.
MoveIds == {1, 2}

\* A position as the move generator sees it: the moves GenerateMoves yields
\* on it, in order, never more than the buffer holds.
GenPositions == UNION {[1..n -> MoveIds] : n \in 0..kMaxLegalMoves}

\* A slot of the buffer nothing was written to.
kUninitialized == 0 - 1

\* Mutant: each call writes where the last one ended.
WriteStart_AtEnd(e) == e

\* The second argument of GenerateMoves: stack.begin(), whatever end is.
WriteStart(e) == 0

\* GenerateMoves<kNonEvasions>(pos, start): writes the moves of pos from
\* start on and returns the write-end.
GenerateMoves(p, buffer, start) ==
  [stack |-> [k \in 1..kMaxLegalMoves |->
                IF start < k /\ k <= start + Len(p) THEN p[k - start] ELSE buffer[k]],
   end   |-> start + Len(p)]

\* for (Position pos : {startpos, festivalpos}): the next position, or the end.
MovegenPosition ==
  /\ pc = "movegen_position"
  /\ IF pos_id < 2
       THEN /\ pos_id' = pos_id + 1
            /\ pos' \in GenPositions
            /\ stack' = [k \in 1..kMaxLegalMoves |-> kUninitialized]
            /\ end' = 0
            /\ loop_i' = 0
            /\ printed' = <<>>
            /\ pc' = "movegen_loop"
       ELSE /\ pc' = "returned"
            /\ UNCHANGED <<pos_id, pos, stack, end, loop_i, printed>>
  /\ UNCHANGED <<mVars, rVars, cliVars, qVars, num_calls, ply, mate_move>>

\* for (int i = 0; i < num_calls; ++i) end = GenerateMoves(pos, stack.begin());
MovegenCall ==
  /\ pc = "movegen_loop"
  /\ IF loop_i < num_calls
       THEN LET r == GenerateMoves(pos, stack, WriteStart(end))
            IN /\ stack' = r.stack
               /\ end' = r.end
               /\ loop_i' = loop_i + 1
               /\ pc' = pc
       ELSE /\ pc' = "movegen_print"
            /\ UNCHANGED <<stack, end, loop_i>>
  /\ UNCHANGED <<mVars, rVars, cliVars, qVars, num_calls, ply, pos_id, pos, mate_move, printed>>

\* for (ExtMove* it = stack.begin(); it != end; ++it) printf(...)
MovegenPrint ==
  /\ pc = "movegen_print"
  /\ printed' = [k \in 1..end |-> stack[IF k <= kMaxLegalMoves THEN k ELSE kMaxLegalMoves]]
  /\ pc' = "movegen_position"
  /\ UNCHANGED <<mVars, rVars, cliVars, qVars, num_calls, ply, pos_id, pos, loop_i, end, stack, mate_move>>

(***************************************************************************)
(* The mate provers, seen from their caller                                *)
(***************************************************************************)
\* What a candidate first move is to the provers: no check; a check that is
\* answered; a check with no legal reply; a check all of whose replies run
\* into a mate in one.
CandKinds == {"quiet", "check", "mate1", "mate3"}

\* A problem position: its candidate moves in the order the provers try them.
MatePositions == UNION {[1..n -> CandKinds] : n \in 0..MaxCand}

FirstOf(p, kinds) ==
  IF \E k \in 1..Len(p) : p[k] \in kinds
    THEN CHOOSE k \in 1..Len(p) : p[k] \in kinds /\ \A h \in 1..(k - 1) : p[h] \notin kinds
    ELSE kMoveNone

\* IsMateInOnePly(pos, &mate_move): true, and the move stored, iff some check
\* leaves no legal reply; false, and mate_move as it was, otherwise.
IsMateInOnePly(p, mv) ==
  LET k == FirstOf(p, {"mate1"})
  IN [found |-> k # kMoveNone, mate_move |-> IF k # kMoveNone THEN k ELSE mv]

\* IsMateInThreePlies(pos, &m3result): true, with m3result.mate_move the
\* first move, iff some check has every reply run into a mate in one.
IsMateInThreePlies(p) ==
  LET k == FirstOf(p, {"mate1", "mate3"})
  IN [found |-> k # kMoveNone, mate_move |-> k]

(***************************************************************************)
(* BenchmarkMateSearch                                                     *)
(***************************************************************************)
\* The number of entries of g_checkmate_problems.
kNumProblems == 11

\* assert(ply == 1 || ply == 3);
MateAssert ==
  /\ pc = "mate_assert"
  /\ pc' = IF ply = 1 \/ ply = 3 THEN "mate_position" ELSE "aborted"
  /\ UNCHANGED <<mVars, rVars, cliVars, qVars, num_calls, ply, bVars>>

\* Move mate_move = kMoveNone; at the top of each iteration.
InitialMateMove(mv) == kMoveNone

\* for (std::string sfen : g_checkmate_problems): the next problem, or the end.
MatePosition ==
  /\ pc = "mate_position"
  /\ IF pos_id < kNumProblems
       THEN /\ pos_id' = pos_id + 1
            /\ pos' \in MatePositions
            /\ mate_move' = InitialMateMove(mate_move)
            /\ loop_i' = 0
            /\ printed' = <<>>
            /\ pc' = IF ply = 1 THEN "mate1_loop" ELSE IF ply = 3 THEN "mate3_loop" ELSE "mate_print"
       ELSE /\ pc' = "returned"
            /\ UNCHANGED <<pos_id, pos, mate_move, loop_i, printed>>
  /\ UNCHANGED <<mVars, rVars, cliVars, qVars, num_calls, ply, end, stack>>

\* for (int j = 0; j < num_calls; j++) IsMateInOnePly(pos, &mate_move);
Mate1Call ==
  /\ pc = "mate1_loop"
  /\ IF loop_i < num_calls
       THEN /\ mate_move' = IsMateInOnePly(pos, mate_move).mate_move
            /\ loop_i' = loop_i + 1
            /\ pc' = pc
       ELSE /\ pc' = "mate_print"
            /\ UNCHANGED <<mate_move, loop_i>>
  /\ UNCHANGED <<mVars, rVars, cliVars, qVars, num_calls, ply, pos_id, pos, end, stack, printed>>

\* for (int j = 0; j < num_calls; j++) { Mate3Result m3result; IsMateInThreePlies(pos, &m3result); }
Mate3Call ==
  /\ pc = "mate3_loop"
  /\ IF loop_i < num_calls
       THEN loop_i' = loop_i + 1 /\ pc' = pc
       ELSE loop_i' = loop_i /\ pc' = "mate3_final"
  /\ UNCHANGED <<mVars, rVars, cliVars, qVars, num_calls, ply, pos_id, pos, end, stack, mate_move, printed>>

\* if (IsMateInThreePlies(pos, &m3result)) mate_move = m3result.mate_move;
Mate3Final ==
  /\ pc = "mate3_final"
  /\ LET r == IsMateInThreePlies(pos)
     IN mate_move' = IF r.found THEN r.mate_move ELSE mate_move
  /\ pc' = "mate_print"
  /\ UNCHANGED <<mVars, rVars, cliVars, qVars, num_calls, ply, pos_id, pos, loop_i, end, stack, printed>>

\* The line printed for a position.
MatePrint ==
  /\ pc = "mate_print"
  /\ printed' = IF mate_move # kMoveNone THEN <<"checkmate", mate_move>> ELSE <<"nomate">>
  /\ pc' = "mate_position"
  /\ UNCHANGED <<mVars, rVars, cliVars, qVars, num_calls, ply, pos_id, pos, loop_i, end, stack, mate_move>>

(***************************************************************************)
(* The program: every command line, the benchmarks step by step            *)
(***************************************************************************)
Init ==
  /\ CliInit(Range(KnownCommands) \cup {"--help"})
  /\ QInit
  /\ BInit
  /\ RInit
  /\ MInit
  /\ db = <<>>
  /\ m3_moves = 0

Next ==
  \/ ExecuteCommand
  \/ MovegenPosition \/ MovegenCall \/ MovegenPrint
  \/ MateAssert \/ MatePosition \/ Mate1Call \/ Mate3Call \/ Mate3Final \/ MatePrint

Spec == Init /\ [][Next]_vars


(***************************************************************************)
(* ComputePlayerRatings                                                    *)
(***************************************************************************)
Players == {"A", "B", "C"}
kBlackWin == "BlackWin"
kWhiteWin == "WhiteWin"
kDraw == "Draw"

Game(b, w, res, d) == [black |-> b, white |-> w, result |-> res, date |-> d]

\* A run of n games that A wins with black against B, one a day.
Streak(n) == [k \in 1..n |-> Game("A", "B", kBlackWin, k)]

\* Any further game: any two players (one player twice as well), any result,
\* played on the first day of the run or after its last.
TailGames ==
  {Game(b, w, res, d) :
     b \in Players, w \in Players, res \in {kBlackWin, kWhiteWin, kDraw},
     d \in {1, MaxStreak + 1}}

\* The databases of the model: the further games, then the run.
Databases ==
  {t \o Streak(n) : t \in UNION {[1..m -> TailGames] : m \in 0..MaxTail}, n \in {0, MaxStreak}}

RECURSIVE SortedByDate(_)
\* std::sort by date: every arrangement of the games in ascending order of
\* date; games of one date come in an order the library chooses.
SortedByDate(seq) ==
  IF seq = <<>> THEN {<<>>}
  ELSE LET x == seq[Len(seq)]
           rest == SortedByDate(SubSeq(seq, 1, Len(seq) - 1))
       IN UNION {{SubSeq(r, 1, k) \o <<x>> \o SubSeq(r, k + 1, Len(r)) :
                    k \in {h \in 0..Len(r) :
                             /\ \A a \in 1..h : r[a].date <= x.date
                             /\ \A a \in (h + 1)..Len(r) : r[a].date >= x.date}} :
                 r \in rest}

\* Integer division of C++: the quotient rounded towards zero.
TruncDiv(a, b) == IF a >= 0 THEN a \div b ELSE 0 - ((0 - a) \div b)

Max(a, b) == IF a >= b THEN a ELSE b
Min(a, b) == IF a <= b THEN a ELSE b

\* map[key]: the value, 0 for a key not in the map yet.
Get(map, key) == IF key \in DOMAIN map THEN map[key] ELSE 0

\* map[key] = value, the key inserted if need be.
Put(map, key, value) == [p \in DOMAIN map \cup {key} |-> IF p = key THEN value ELSE map[p]]

\* The players of the games of a list, and the number of times a player
\* sits at the board in them.
PlayersOf(gs) == UNION {{gs[k].black, gs[k].white} : k \in 1..Len(gs)}
Seats(gs, p) ==
  Cardinality({k \in 1..Len(gs) : gs[k].black = p}) + Cardinality({k \in 1..Len(gs) : gs[k].white = p})

\* Mutant: the gain capped at 31 but not raised to 1.
Clamp_NoFloor(d) == Min(d, 31)

\* delta = std::max(1, std::min(delta, 31));
Clamp(d) == Max(1, Min(d, 31))

\* Steps 1 and 2: the decisive games read, then sorted by date.
RatingsRead ==
  /\ pc = "ratings_read"
  /\ games' \in SortedByDate(SelectSeq(db, LAMBDA g : g.result # kDraw))
  /\ pc' = "ratings_init"
  /\ UNCHANGED <<mVars, cliVars, qVars, num_calls, ply, bVars, db, ratings, sum_ratings,
                 num_played, game_i, winner_rating, loser_rating, delta, results>>

\* Step 3.
RatingsInit ==
  /\ pc = "ratings_init"
  /\ ratings' = [p \in PlayersOf(games) |-> 1500]
  /\ num_played' = [p \in PlayersOf(games) |-> Seats(games, p)]
  /\ game_i' = 1
  /\ pc' = "ratings_update"
  /\ UNCHANGED <<mVars, cliVars, qVars, num_calls, ply, bVars, db, games, sum_ratings,
                 winner_rating, loser_rating, delta, results>>

\* Step 4, one game; after the last game, on to step 5.
RatingsUpdate ==
  /\ pc = "ratings_update"
  /\ IF game_i <= Len(games)
       THEN LET game == games[game_i]
                winner == IF game.result = kBlackWin THEN game.black ELSE game.white
                loser  == IF game.result = kBlackWin THEN game.white ELSE game.black
                wr == ratings[winner]
                lr == ratings[loser]
                d  == Clamp(16 + TruncDiv(lr - wr, 25))
                r1 == Put(ratings, winner, ratings[winner] + d)
                r2 == Put(r1, loser, r1[loser] - d)
                s1 == Put(sum_ratings, winner, Get(sum_ratings, winner) + r2[winner])
                s2 == Put(s1, loser, Get(s1, loser) + r2[loser])
            IN /\ winner_rating' = wr
               /\ loser_rating' = lr
               /\ delta' = d
               /\ ratings' = r2
               /\ sum_ratings' = s2
               /\ game_i' = game_i + 1
               /\ pc' = pc
       ELSE /\ pc' = "ratings_average"
            /\ UNCHANGED <<winner_rating, loser_rating, delta, ratings, sum_ratings, game_i>>
  /\ UNCHANGED <<mVars, cliVars, qVars, num_calls, ply, bVars, db, games, num_played, results>>

\* Step 5: the mean of each player's ratings after each of the player's games.
\* A division by zero stops the program.
RatingsAverage ==
  /\ pc = "ratings_average"
  /\ IF \A p \in DOMAIN ratings : Get(num_played, p) # 0
       THEN /\ ratings' = [p \in DOMAIN ratings |->
                             TruncDiv(Get(sum_ratings, p), Get(num_played, p))]
            /\ pc' = "ratings_print"
       ELSE /\ ratings' = ratings
            /\ pc' = "aborted"
  /\ UNCHANGED <<mVars, cliVars, qVars, num_calls, ply, bVars, db, games, sum_ratings,
                 num_played, game_i, winner_rating, loser_rating, delta, results>>

\* Every order of the pairs of a map by descending value.
Descending(map) ==
  {s \in [1..Cardinality(DOMAIN map) -> {<<p, map[p]>> : p \in DOMAIN map}] :
     /\ \A a, b \in DOMAIN s : a # b => s[a] # s[b]
     /\ \A a \in 1..(Len(s) - 1) : s[a][2] >= s[a + 1][2]}

\* Steps 6 and 7: sorted by descending rating, then printed.
RatingsPrint ==
  /\ pc = "ratings_print"
  /\ results' \in Descending(ratings)
  /\ pc' = "returned"
  /\ UNCHANGED <<mVars, cliVars, qVars, num_calls, ply, bVars, db, games, ratings, sum_ratings,
                 num_played, game_i, winner_rating, loser_rating, delta>>

InitRatings ==
  /\ CliInit({"--compute-ratings"})
  /\ argc = 2
  /\ QInit
  /\ BInit
  /\ RInit
  /\ MInit
  /\ db \in Databases
  /\ m3_moves = 0

NextRatings ==
  ExecuteCommand \/ RatingsRead \/ RatingsInit \/ RatingsUpdate \/ RatingsAverage \/ RatingsPrint

SpecRatings == InitRatings /\ [][NextRatings]_vars

(***************************************************************************)
(* ProveMateInThree, step by step: OR over the first moves, AND over the   *)
(* replies, ProveMateInOne on the position after each reply                *)
(***************************************************************************)
\* What a move of the position after a reply is to ProveMateInOne: no check;
\* a check that is answered; a check with no legal evasion.
ReplyKinds == {"quiet", "check", "mate"}

\* The positions after a reply: their moves in the order the prover tries them.
ReplyPositions == UNION {[1..n -> ReplyKinds] : n \in 0..MaxMate}

\* The lists of positions the legal replies to a first move lead to.
ReplyLists == UNION {[1..n -> ReplyPositions] : n \in 0..MaxReply}

\* ProveMateInOne(position): the first check that leaves no legal evasion.
ProveMateInOne(p) ==
  LET k == FirstOf(p, {"mate"})
  IN [found |-> k # kMoveNone, mate_move |-> k]

\* Mutant: no reply ever refutes a candidate.
Refutes_Never(p) == FALSE

\* A reply refutes the candidate when the position after it has no mate in one.
Refutes(p) == ~ProveMateInOne(p).found

\* The OR-loop: the next first move is generated; one that gives no check is
\* not a candidate; the replies to one that gives check are generated.  With
\* no first move left the prover reports none.
M3Candidate ==
  /\ pc = "m3_candidate"
  /\ IF m3_k > m3_moves
       THEN /\ m3_result' = [found |-> FALSE, mate_move |-> kMoveNone]
            /\ pc' = "m3_done"
            /\ UNCHANGED <<m3_k, m3_check, m3_replies, m3_r>>
       ELSE \E chk \in BOOLEAN :
              /\ m3_check' = chk
              /\ IF chk
                   THEN /\ m3_replies' \in ReplyLists
                        /\ m3_r' = 1
                        /\ m3_k' = m3_k
                        /\ pc' = "m3_reply"
                   ELSE /\ m3_replies' = <<>>
                        /\ m3_r' = 1
                        /\ m3_k' = m3_k + 1
                        /\ pc' = pc
              /\ m3_result' = m3_result
  /\ UNCHANGED <<cliVars, qVars, num_calls, ply, bVars, rVars, m3_moves>>

\* The AND-loop: the candidate is dropped at the first reply that refutes it,
\* and returned when no reply is left.
M3Reply ==
  /\ pc = "m3_reply"
  /\ IF m3_r > Len(m3_replies)
       THEN /\ m3_result' = [found |-> TRUE, mate_move |-> m3_k]
            /\ pc' = "m3_done"
            /\ UNCHANGED <<m3_k, m3_r>>
       ELSE IF Refutes(m3_replies[m3_r])
              THEN /\ m3_k' = m3_k + 1
                   /\ pc' = "m3_candidate"
                   /\ UNCHANGED <<m3_r, m3_result>>
              ELSE /\ m3_r' = m3_r + 1
                   /\ pc' = pc
                   /\ UNCHANGED <<m3_k, m3_result>>
  /\ UNCHANGED <<cliVars, qVars, num_calls, ply, bVars, rVars, m3_moves, m3_check, m3_replies>>

\* The prover called on any position.
InitMate3 ==
  /\ argc = 2
  /\ argv = <<"--bench-mate3">>
  /\ called = <<>>
  /\ out = <<>>
  /\ pc = "m3_candidate"
  /\ QInit
  /\ BInit
  /\ RInit
  /\ db = <<>>
  /\ MInit
  /\ m3_moves \in 0..MaxCand

NextMate3 == M3Candidate \/ M3Reply

SpecMate3 == InitMate3 /\ [][NextMate3]_vars

(***************************************************************************)
(* Properties of ComputeAllPossibleQuietMoves                              *)
(***************************************************************************)
Piece(c, t) == [color |-> c, type |-> t]

QuietDone ==
  pc = "returned" /\ called = <<[fn |-> "ComputeAllPossibleQuietMoves", args |-> <<>>]>>

NonPromotingBoardMoves == {m \in Range(moves) : ~IsDrop(m) /\ ~IsPromotion(m)}
PromotingMoves == {m \in Range(moves) : ~IsDrop(m) /\ IsPromotion(m)}
DropsOf(piece) == SelectSeq(moves, LAMBDA m : IsDrop(m) /\ MovePiece(m) = piece)

\* C1: every non-promoting board move pushed by ComputeAllPossibleQuietMoves
\* keeps clear of the ranks where declining promotion is dominated or
\* illegal: no pawn, bishop or rook move ends in the promotion zone of its
\* colour, and no lance or knight move ends on rank 1 or 2 seen from its colour.
C1_NonDominatedByRank ==
  \A m \in NonPromotingBoardMoves :
    LET piece == MovePiece(m)
    IN /\ piece.type \in {kPawn, kBishop, kRook} => ~is_promotion_zone_of(MoveTo(m), piece.color)
       /\ piece.type \in {kLance, kKnight} => RelativeRank(piece.color, MoveTo(m)) \notin {1, 2}

\* The first pass has pushed pawn, lance, knight, bishop and rook moves of
\* both colours, a lance and a knight move that end on rank 3 among them.
C1_Witness ==
  /\ pc = "quiet_pass1"
  /\ \A c \in {kBlack, kWhite} : \A t \in {kPawn, kLance, kKnight, kBishop, kRook} :
       \E m \in NonPromotingBoardMoves : MovePiece(m) = Piece(c, t)
  /\ \E m \in NonPromotingBoardMoves :
       MovePiece(m).type = kLance /\ RelativeRank(MovePiece(m).color, MoveTo(m)) = 3
  /\ \E m \in NonPromotingBoardMoves :
       MovePiece(m).type = kKnight /\ RelativeRank(MovePiece(m).color, MoveTo(m)) = 3

\* The shapes the claim lists as left out of the catalogue.
ExcludedShape(piece, from, to) ==
  \/ piece.type \in {kPawn, kBishop, kRook} /\ is_promotion_zone_of(to, piece.color)
  \/ piece.type = kLance /\ RelativeRank(piece.color, to) = 2
  \/ piece.type \in {kPawn, kLance} /\ RelativeRank(piece.color, to) = 1
  \/ piece.type = kKnight /\ RelativeRank(piece.color, to) <= 2

\* The further shape the code leaves out: a bishop or rook that starts in
\* the promotion zone of its colour.
StartsInZone(piece, from) ==
  piece.type \in {kBishop, kRook} /\ is_promotion_zone_of(from, piece.color)

\* The pieces whose iteration of the first pass has just ended; every piece
\* once the function has returned.
PiecesAfterPass1 ==
  IF pc = "quiet_pass1" /\ qi > 1 THEN {all_pieces[qi - 1]}
  ELSE IF pc = "quiet_pass2" /\ qc = 1 THEN {all_pieces[Len(all_pieces)]}
  ELSE IF QuietDone THEN Range(all_pieces)
  ELSE {}

QuietOf(piece) == {m \in NonPromotingBoardMoves : MovePiece(m) = piece}

\* C2 as stated: a non-promoting board move along the maximal attacks is in
\* the catalogue iff it is none of the excluded shapes.
C2_Original ==
  \A piece \in PiecesAfterPass1 :
    QuietOf(piece) =
      {BoardMove(piece, ft[1], ft[2], FALSE) :
         ft \in {u \in Squares \X Squares :
                   /\ Reaches(piece, u[1], u[2])
                   /\ ~ExcludedShape(piece, u[1], u[2])}}

\* C2 (amended): a non-promoting board move along the maximal attacks is in
\* the catalogue iff it is none of the excluded shapes and is not a bishop or
\* rook move that starts in the promotion zone of its colour.
C2_Membership ==
  \A piece \in PiecesAfterPass1 :
    QuietOf(piece) =
      {BoardMove(piece, ft[1], ft[2], FALSE) :
         ft \in {u \in Squares \X Squares :
                   /\ Reaches(piece, u[1], u[2])
                   /\ ~ExcludedShape(piece, u[1], u[2])
                   /\ ~StartsInZone(piece, u[1])}}

\* The rook's iteration has ended: its move from inside the zone to outside
\* is absent, one that stays outside the zone is present.
C2_Witness ==
  /\ PiecesAfterPass1 = {Piece(kBlack, kRook)}
  /\ 4 \in max_attacks_bb(Piece(kBlack, kRook), 1)
  /\ BoardMove(Piece(kBlack, kRook), 1, 4, FALSE) \notin NonPromotingBoardMoves
  /\ BoardMove(Piece(kBlack, kRook), 4, 5, FALSE) \in NonPromotingBoardMoves

\* C3: the passes never push the same move twice, and the printed sequence
\* holds the encoding of every move pushed, in strictly ascending order.
C3_StrictlyAscending ==
  /\ Cardinality(Range(moves)) = Len(moves)
  /\ QuietDone =>
       /\ Len(output) = Len(moves)
       /\ Range(output) = {ToUint32(m) : m \in Range(moves)}
       /\ \A k \in 1..(Len(output) - 1) : output[k] < output[k + 1]

\* The output holds moves of all three passes, a silver move with and
\* without promotion between the same squares among them.
C3_Witness ==
  /\ QuietDone
  /\ ToUint32(BoardMove(Piece(kBlack, kSilver), 3, 2, FALSE)) \in Range(output)
  /\ ToUint32(BoardMove(Piece(kBlack, kSilver), 3, 2, TRUE)) \in Range(output)
  /\ ToUint32(DropMove(Piece(kWhite, kGold), 40)) \in Range(output)

\* The squares a piece may be dropped on, by the rule of the game.
DropAllowed(piece, to) ==
  CASE piece.type \in {kPawn, kLance} -> RelativeRank(piece.color, to) >= 2
    [] piece.type = kKnight           -> RelativeRank(piece.color, to) >= 3
    [] OTHER                          -> TRUE

\* The pieces whose iteration of the third pass has just ended; every piece
\* once the function has returned.
PiecesAfterPass3 ==
  IF pc = "quiet_pass3" /\ qi > 1 THEN {all_pieces[qi - 1]}
  ELSE IF pc = "quiet_sort" THEN {all_pieces[Len(all_pieces)]}
  ELSE IF QuietDone THEN Range(all_pieces)
  ELSE {}

\* C4: the drops of the catalogue are exactly one drop per droppable piece
\* and allowed square: no pawn or lance on the farthest rank, no knight on
\* the two farthest ranks, every other droppable piece on all 81 squares, and
\* no drop of a king or of a promoted piece.
C4_Drops ==
  \A piece \in PiecesAfterPass3 :
    /\ Range(DropsOf(piece)) =
         {DropMove(piece, to) :
            to \in {sq \in Squares :
                      /\ piece.type \in {kRook, kBishop, kGold, kSilver, kKnight, kLance, kPawn}
                      /\ DropAllowed(piece, sq)}}
    /\ Cardinality(Range(DropsOf(piece))) = Len(DropsOf(piece))

\* The third pass has just dropped the black knight: on its third rank, not
\* on its second; the rook before it on the farthest rank, the king not at all.
C4_Witness ==
  /\ PiecesAfterPass3 = {Piece(kBlack, kKnight)}
  /\ DropMove(Piece(kBlack, kKnight), 2) \in Range(moves)
  /\ DropMove(Piece(kBlack, kKnight), 1) \notin Range(moves)
  /\ DropMove(Piece(kBlack, kRook), 0) \in Range(moves)
  /\ DropMove(Piece(kBlack, kKing), 40) \notin Range(moves)

\* The colours whose iteration of the second pass has ended.
ColorsAfterPass2 ==
  IF pc = "quiet_pass2" /\ qc = 2 THEN {kBlack}
  ELSE IF pc = "quiet_pass3" /\ qi = 1 THEN {kBlack, kWhite}
  ELSE IF QuietDone THEN {kBlack, kWhite}
  ELSE {}

\* C5: the promoting moves of the catalogue are silver moves only, and for
\* each colour exactly the moves along the maximal attacks of its silver with
\* the origin or the destination in its promotion zone.
C5_SilverPromotions ==
  /\ \A m \in PromotingMoves : MovePiece(m).type = kSilver
  /\ \A c \in ColorsAfterPass2 :
       {m \in PromotingMoves : MovePiece(m).color = c} =
         {BoardMove(Piece(c, kSilver), ft[1], ft[2], TRUE) :
            ft \in {u \in Squares \X Squares :
                      /\ Reaches(Piece(c, kSilver), u[1], u[2])
                      /\ (is_promotion_zone_of(u[1], c) \/ is_promotion_zone_of(u[2], c))}}

\* Both colours are through the second pass: a silver promotes when it
\* leaves the zone backwards and when it enters it, not outside the zone.
C5_Witness ==
  /\ ColorsAfterPass2 = {kBlack, kWhite}
  /\ BoardMove(Piece(kBlack, kSilver), 2, 12, TRUE) \in PromotingMoves
  /\ BoardMove(Piece(kWhite, kSilver), 5, 6, TRUE) \in PromotingMoves
  /\ BoardMove(Piece(kBlack, kSilver), 4, 3, TRUE) \notin PromotingMoves
  /\ 3 \in max_attacks_bb(Piece(kBlack, kSilver), 4)

(***************************************************************************)
(* Properties of BenchmarkMoveGeneration                                   *)
(***************************************************************************)
MovegenRunning ==
  /\ Len(called) = 1
  /\ called[1].fn = "BenchmarkMoveGeneration"
  /\ pos_id >= 1

\* C6: whatever num_calls is, every call of GenerateMoves writes from the
\* start of the buffer: after one call or many the write-end is that of one
\* call and within the capacity, the buffer holds the moves of that call, and
\* the moves printed are those of the last call, none when there was no call.
C6_WriteEnd ==
  MovegenRunning =>
    /\ 0 <= end /\ end <= kMaxLegalMoves
    /\ end = IF loop_i >= 1 THEN GenerateMoves(pos, stack, 0).end ELSE 0
    /\ \A k \in 1..end : stack[k] = pos[k]
    /\ pc \in {"movegen_position", "returned"} =>
         printed = IF num_calls >= 1 THEN pos ELSE <<>>

\* Two calls on a position that fills the buffer, then the print.
C6_Witness ==
  /\ MovegenRunning
  /\ pc = "movegen_position"
  /\ num_calls = 2 /\ loop_i = 2
  /\ Len(pos) = kMaxLegalMoves
  /\ end = kMaxLegalMoves
  /\ printed = pos

(***************************************************************************)
(* Properties of BenchmarkMateSearch                                       *)
(***************************************************************************)
\* The line for the running position has been printed.
MatePrinted ==
  /\ Len(called) = 1
  /\ called[1].fn = "BenchmarkMateSearch"
  /\ pc \in {"mate_position", "returned"}
  /\ pos_id >= 1

\* The answer of the prover that ply selects.
ProverOf(p, pl) == IF pl = 1 THEN IsMateInOnePly(p, kMoveNone) ELSE IsMateInThreePlies(p)

\* C8: for every problem, ply and num_calls the line printed is
\* 'checkmate <move>' with the move the selected prover reports on that
\* position if it reports a mate, and 'nomate' otherwise.
C8_PrintsProverResult ==
  MatePrinted =>
    printed = IF ProverOf(pos, ply).found
                THEN <<"checkmate", ProverOf(pos, ply).mate_move>>
                ELSE <<"nomate">>

(***************************************************************************)
(* Properties of ProveMateInThree                                          *)
(***************************************************************************)
\* What holds of every state of the prover.
M3StateLaw ==
  /\ (pc = "m3_done" /\ m3_result.found) =>
       /\ m3_check
       /\ m3_result.mate_move = m3_k
       /\ \A j \in 1..Len(m3_replies) : ProveMateInOne(m3_replies[j]).found
  /\ pc = "m3_reply" =>
       /\ m3_check
       /\ \A j \in 1..(m3_r - 1) : ProveMateInOne(m3_replies[j]).found
  /\ (pc = "m3_done" /\ ~m3_result.found) => m3_k = m3_moves + 1

\* What holds of every step of the prover.
M3StepLaw ==
  /\ (pc = "m3_reply" /\ m3_r <= Len(m3_replies) /\ ~ProveMateInOne(m3_replies[m3_r]).found) =>
       (m3_k' = m3_k + 1 /\ pc' = "m3_candidate")
  /\ m3_k' # m3_k =>
       /\ m3_k' = m3_k + 1
       /\ \/ pc = "m3_candidate" /\ ~m3_check'
          \/ /\ pc = "m3_reply"
             /\ m3_r <= Len(m3_replies)
             /\ ~ProveMateInOne(m3_replies[m3_r]).found

\* C7: when the 3-ply prover succeeds with first move M, M gives check and
\* the 1-ply prover succeeds on the position after every legal reply to M; a
\* candidate is dropped at the first reply with no mating continuation, a
\* candidate is left behind only when it gives no check or a reply refutes
\* it, and none is reported only after every candidate was left behind.
C7_Consistency == [](M3StateLaw) /\ [][M3StepLaw]_vars

\* The second candidate succeeds with the most replies, after the first was dropped.
C7_Witness ==
  /\ pc = "m3_done"
  /\ m3_result.found
  /\ m3_k = 2
  /\ Len(m3_replies) >= 2

(***************************************************************************)
(* Properties of ComputePlayerRatings                                      *)
(***************************************************************************)
RECURSIVE SumOver(_, _)
SumOver(map, keys) ==
  IF keys = {} THEN 0
  ELSE LET p == CHOOSE q \in keys : TRUE
       IN map[p] + SumOver(map, keys \ {p})

\* The decisive games of the database and the players of those games.
Decisive == {k \in 1..Len(db) : db[k].result # kDraw}
Listed == {p \in Players : \E k \in Decisive : db[k].black = p \/ db[k].white = p}

\* The games of step 4 are being processed, or have all been.
RatingsUpdating == pc \in {"ratings_update", "ratings_average"}

\* C10: the update is zero-sum and bounded: each decisive game gives the
\* winner delta and takes delta from the loser, 1 <= delta <= 31 being
\* 16 + (loser - winner) / 25 clamped, so the ratings always add up to 1500
\* for each listed player; drawn games are not counted and list nobody; the
\* average divides by a number of games that is at least 1.
C10_ZeroSumBounded ==
  /\ pc # "aborted"
  /\ RatingsUpdating =>
       /\ Len(games) = Cardinality(Decisive)
       /\ \A k \in 1..Len(games) : games[k].result # kDraw
       /\ DOMAIN ratings = Listed
       /\ DOMAIN num_played = Listed
       /\ SumOver(ratings, DOMAIN ratings) = 1500 * Cardinality(Listed)
       /\ \A p \in Listed : num_played[p] >= 1
       /\ game_i > 1 =>
            LET game == games[game_i - 1]
                winner == IF game.result = kBlackWin THEN game.black ELSE game.white
                loser  == IF game.result = kBlackWin THEN game.white ELSE game.black
                raw == 16 + TruncDiv(loser_rating - winner_rating, 25)
            IN /\ 1 <= delta /\ delta <= 31
               /\ delta = IF raw < 1 THEN 1 ELSE IF raw > 31 THEN 31 ELSE raw
               /\ winner # loser =>
                    /\ ratings[winner] = winner_rating + delta
                    /\ ratings[loser] = loser_rating - delta
               /\ winner = loser => ratings[winner] = winner_rating

\* A game between players 400 points apart, won by the stronger: the gain is
\* raised to 1; a third player is listed.
C10_Witness ==
  /\ pc = "ratings_update"
  /\ game_i > 1
  /\ winner_rating - loser_rating >= 400
  /\ delta = 1
  /\ Cardinality(DOMAIN ratings) = 3

(***************************************************************************)
(* Properties of Cli::ExecuteCommand                                       *)
(***************************************************************************)
\* The handler of each command.
HandlerTable ==
  <<"BenchmarkSearch", "BenchmarkMoveGeneration", "BenchmarkMateSearch", "BenchmarkMateSearch",
    "Cluster::Start", "ComputeAllPossibleQuietMoves", "Consultation::Start", "CreateBook",
    "ComputeStatsOfGameDatabase", "TeacherData::GenerateTeacherGames",
    "TeacherData::GenerateTeacherPositions", "TeacherData::GenerateTeacherPvs",
    "Learning::LearnEvaluationParameters", "Learning::LearnEvaluationParameters",
    "Learning::LearnEvaluationParameters", "Progress::LearnParameters",
    "MoveProbability::Learn", "ComputePlayerRatings">>

\* C9: ExecuteCommand runs at most one handler: none, and 'No command', when
\* argc < 2; none, and 'No such command', when argv[1] is no known command;
\* otherwise exactly the handler of argv[1].  A benchmark's repeat count is
\* atoi(argv[2]) when argc >= 3 and 1 otherwise, and BenchmarkMateSearch is
\* entered with ply 1 or 3 only, so that its assertion never fails.
C9_Dispatch ==
  /\ Len(called) <= 1
  /\ pc # "aborted"
  /\ pc # "start" =>
       /\ argc < 2 => called = <<>> /\ out = <<"CLI: No command.">>
       /\ (argc >= 2 /\ argv[1] \notin Range(KnownCommands)) =>
            called = <<>> /\ out = <<"CLI: No such command.", argv[1]>>
       /\ (argc >= 2 /\ argv[1] \in Range(KnownCommands)) =>
            /\ Len(called) = 1
            /\ called[1].fn = HandlerTable[IndexOf(KnownCommands, argv[1])]
            /\ out = <<>>
            /\ called[1].fn \in {"BenchmarkMoveGeneration", "BenchmarkMateSearch"} =>
                 /\ called[1].args[1] = IF argc >= 3 THEN atoi(argv[2]) ELSE 1
                 /\ num_calls = called[1].args[1]
            /\ called[1].fn = "BenchmarkMateSearch" =>
                 /\ ply = called[1].args[2]
                 /\ ply = IF argv[1] = "--bench-mate1" THEN 1 ELSE 3

\* The 3-ply benchmark entered with a count read from "1x", past its assertion.
C9_Witness ==
  /\ argc = 3
  /\ argv = <<"--bench-mate3", <<"1", "x">>>>
  /\ pc = "mate_position"
  /\ num_calls = 1
  /\ ply = 3
  /\ atoi(<<"-", "1">>) = 0 - 1

====
